---------------------------- MODULE Spec2Model ----------------------------
(***************************************************************************)
(* A model of ProjectTracker (Contribute_Checker/project_tracker.py): the  *)
(* in-memory contributor collection, the JSON data file it is saved to and *)
(* loaded from, and the operations that change them.                       *)
(*                                                                         *)
(* Python values are modelled as follows.                                  *)
(*   - a datetime is a natural number (a tick of the clock `now`);         *)
(*   - datetime.isoformat() is the table IsoTable, fromisoformat() is the  *)
(*     lookup in that table and raises on a string that is not in it;      *)
(*   - a dict with optional keys is a function whose DOMAIN is the set of  *)
(*     keys present; the ordered dict self.contributors is the function    *)
(*     `contributors` together with its insertion order `key_order`;       *)
(*   - None and int are tagged records, so that they stay distinguishable. *)
(***************************************************************************)
EXTENDS Integers, Sequences, FiniteSets, TLC

\* ------------------------------------------------------------------ bounds
\* At most MaxAdded contributions are recorded in one behaviour (a data file
\* may hold more at the start).
MaxAdded == 2
\* At most MaxWriteFailures file writes fail in one behaviour.
MaxWriteFailures == 1

\* ------------------------------------------------------------------ inputs
\* the values datetime.now() returns, in this order
Times == {0, 1}
Users == {"u1", "u2"}
\* the (name, email) pairs add_contributor is called with
Profiles == { <<"Ann", "ann@x.org">>, <<"Bob", "">> }
Repos == {"repo"}
ContributionTypes == {"bug-fix"}
Descriptions == {"desc"}

\* the default of ProjectTracker.__init__'s project_name
DefaultProjectName == "Hacktoberfest 2025"

None == [type |-> "NoneType"]
PyInt(n) == [type |-> "int", v |-> n]
PrNumbers == {None}

\* ------------------------------------------------------------ date strings
IsoTable ==
  << "2025-10-01T09:00:00", "2025-10-02T09:00:00", "2025-10-03T09:00:00",
     "2025-10-04T09:00:00", "2025-10-05T09:00:00", "2025-10-06T09:00:00" >>

\* datetime.isoformat()
isoformat(t) == IsoTable[t + 1]

\* datetime.fromisoformat() succeeds on s
IsIsoString(s) == \E i \in 1..Len(IsoTable) : IsoTable[i] = s

\* datetime.fromisoformat()
fromisoformat(s) == (CHOOSE i \in 1..Len(IsoTable) : IsoTable[i] = s) - 1

\* ------------------------------------------------------------- Contributor
\* Contributor.__init__: joined_date is the time of construction
Contributor(name, github_username, email, t) ==
  [ name |-> name, github_username |-> github_username, email |-> email,
    joined_date |-> t, contributions |-> << >> ]

\* the record Contributor.add_contribution appends
Contribution(repo_name, contribution_type, description, pr_number, t) ==
  [ repo_name |-> repo_name, type |-> contribution_type,
    description |-> description, pr_number |-> pr_number,
    date |-> isoformat(t) ]

\* Contributor.add_contribution
contributor_add_contribution(c, contribution) ==
  [c EXCEPT !.contributions = Append(@, contribution)]

\* Contributor.get_contribution_count
get_contribution_count(c) == Len(c.contributions)

\* Contributor.is_hacktoberfest_complete
is_hacktoberfest_complete(c) == get_contribution_count(c) >= 4

\* Contributor.to_dict
to_dict(c) ==
  [ name |-> c.name, github_username |-> c.github_username, email |-> c.email,
    joined_date |-> isoformat(c.joined_date), contributions |-> c.contributions ]


\* ------------------------------------------------------------------- state
VARIABLES
  pc,            \* "new" before ProjectTracker.__init__ calls load_data, then "ready"
  project_name,  \* self.project_name
  created_date,  \* self.created_date
  contributors,  \* self.contributors: github_username key -> Contributor
  key_order,     \* insertion order of the keys of self.contributors
  notifier,      \* self.notifier is not None
  file,          \* the data file self.data_file
  now,           \* the clock read by datetime.now()
  failures,      \* number of file writes that have failed
  added,         \* number of contributions recorded since construction
  last,          \* the call that ran last: its name, argument, result, file write
  sent,          \* the notifications the last call sent
  welcomed,      \* the usernames welcome emails were sent for, oldest first
  has_username,  \* Contributor objects have an attribute "username"
  name_var, username_var, email_var,      \* the "Add Contributor" form
  contrib_username_var, repo_var, type_var, description_var, pr_var,
                                          \* the "Add Contribution" form
  sort_var,      \* the "Sort by" box of the leaderboard
  search_var,    \* the search box above the contributors table
  stats_vars,    \* the counters of the dashboard
  contributors_tree,   \* the rows of the contributors table
  leaderboard_tree,    \* the rows of the leaderboard table
  top_contributor_var, longest_streak_var, most_badges_var,
                                          \* the cards above the leaderboard
  messagebox,    \* the message box shown last
  event          \* the handler of the desktop window that ran last

\* the variables of the ProjectTracker
tracker_vars == << pc, project_name, created_date, contributors, key_order,
                   notifier, welcomed, file, now, failures, added, last, sent >>

\* the "Add Contributor" and the "Add Contribution" form
contributor_form == << name_var, username_var, email_var >>
contribution_form ==
  << contrib_username_var, repo_var, type_var, description_var, pr_var >>

\* the cards above the leaderboard
stat_cards == << top_contributor_var, longest_streak_var, most_badges_var >>

\* the variables of the HacktoberfestDesktopUI
ui_vars == << has_username, contributor_form, contribution_form, sort_var,
              search_var, stats_vars, contributors_tree, leaderboard_tree, stat_cards,
              messagebox, event >>

vars == << tracker_vars, ui_vars >>

\* the tracker's loaded state as one value
Mem(pn, cd, cs, order) ==
  [ project_name |-> pn, created_date |-> cd, contributors |-> cs, key_order |-> order ]

\* self.contributors[k] = v
Put(cs, k, v) == [x \in DOMAIN cs \cup {k} |-> IF x = k THEN v ELSE cs[x]]

\* insertion order after self.contributors[k] = v
PutOrder(cs, order, k) == IF k \in DOMAIN cs THEN order ELSE Append(order, k)

\* an empty dict
EmptyDict == [x \in {} |-> x]

\* --------------------------------------------------------------- the file
MissingFile == [kind |-> "missing"]
\* a file that cannot be read or does not hold JSON: open or json.load raises
MalformedFile == [kind |-> "malformed"]
JsonFile(data) == [kind |-> "json", data |-> data]

\* the document save_data builds
Document(m) ==
  [ project_name |-> m.project_name,
    created_date |-> isoformat(m.created_date),
    contributors |->
      [i \in 1..Len(m.key_order) |->
         << m.key_order[i], to_dict(m.contributors[m.key_order[i]]) >>] ]

WriteOutcomes == {"ok", "open_fails", "dump_fails"}

\* a save_data that writes only where there is no readable file yet
save_data_keeping(m, f, outcome) ==
  CASE outcome = "ok" -> IF f.kind = "json" THEN f ELSE JsonFile(Document(m))
    [] outcome = "open_fails" -> f
    [] outcome = "dump_fails" -> MalformedFile

\* save_data: the file after the write. open() may raise before the file is
\* touched; json.dump may raise after open() has truncated it.
save_data(m, f, outcome) ==
  CASE outcome = "ok" -> JsonFile(Document(m))
    [] outcome = "open_fails" -> f
    [] outcome = "dump_fails" -> MalformedFile

\* lines 248-255 run without raising on the record d
RecordLoads(d) ==
  /\ "name" \in DOMAIN d
  /\ "github_username" \in DOMAIN d
  /\ ("joined_date" \in DOMAIN d => IsIsoString(d["joined_date"]))

\* a LoadRecord that leaves joined_date as the constructor set it
LoadRecord_joined_now(d, t) ==
  [ name |-> d["name"],
    github_username |-> d["github_username"],
    email |-> IF "email" \in DOMAIN d THEN d["email"] ELSE "",
    joined_date |-> t,
    contributions |-> IF "contributions" \in DOMAIN d
                      THEN d["contributions"] ELSE << >> ]

\* the Contributor lines 248-257 build from the record d at time t
LoadRecord(d, t) ==
  [ name |-> d["name"],
    github_username |-> d["github_username"],
    email |-> IF "email" \in DOMAIN d THEN d["email"] ELSE "",
    joined_date |-> IF "joined_date" \in DOMAIN d
                    THEN fromisoformat(d["joined_date"]) ELSE t,
    contributions |-> IF "contributions" \in DOMAIN d
                      THEN d["contributions"] ELSE << >> ]

\* the loop of load_data over data["contributors"].items(); it stops at the
\* first record that raises and keeps what it has stored so far
RECURSIVE LoadContributors(_, _, _, _)
LoadContributors(items, cs, order, t) ==
  IF Len(items) = 0 THEN [contributors |-> cs, key_order |-> order]
  ELSE LET username == Head(items)[1]
           contrib_data == Head(items)[2]
       IN IF ~RecordLoads(contrib_data)
          THEN [contributors |-> cs, key_order |-> order]
          ELSE LoadContributors(Tail(items),
                                Put(cs, username, LoadRecord(contrib_data, t)),
                                PutOrder(cs, order, username), t)

\* a LoadDocument that loads into an empty collection
LoadDocument_replacing(m, data, t) ==
  LET pn == IF "project_name" \in DOMAIN data
            THEN data["project_name"] ELSE m.project_name
  IN IF "created_date" \in DOMAIN data /\ ~IsIsoString(data["created_date"])
     THEN [m EXCEPT !.project_name = pn]
     ELSE LET cd == IF "created_date" \in DOMAIN data
                    THEN fromisoformat(data["created_date"])
                    ELSE m.created_date
              items == IF "contributors" \in DOMAIN data
                       THEN data["contributors"] ELSE << >>
              loaded == LoadContributors(items, EmptyDict, << >>, t)
          IN Mem(pn, cd, loaded.contributors, loaded.key_order)

\* load_data from line 243 on: the parsed document data is loaded into the
\* tracker state m at time t, up to the first line that raises
LoadDocument(m, data, t) ==
  LET pn == IF "project_name" \in DOMAIN data
            THEN data["project_name"] ELSE m.project_name
  IN IF "created_date" \in DOMAIN data /\ ~IsIsoString(data["created_date"])
     THEN [m EXCEPT !.project_name = pn]
     ELSE LET cd == IF "created_date" \in DOMAIN data
                    THEN fromisoformat(data["created_date"])
                    ELSE m.created_date
              items == IF "contributors" \in DOMAIN data
                       THEN data["contributors"] ELSE << >>
              loaded == LoadContributors(items, m.contributors, m.key_order, t)
          IN Mem(pn, cd, loaded.contributors, loaded.key_order)

\* a load_data that starts from an empty collection when there is no file
load_data_resetting(m, f, t) ==
  CASE f.kind = "missing" -> Mem(m.project_name, m.created_date, EmptyDict, << >>)
    [] f.kind = "malformed" -> m
    [] f.kind = "json" -> LoadDocument(m, f.data, t)

\* load_data on the tracker state m, the file f, at time t: a missing file
\* returns at once, a file that is unreadable or no JSON raises before any
\* assignment
load_data(m, f, t) ==
  CASE f.kind = "missing" -> m
    [] f.kind = "malformed" -> m
    [] f.kind = "json" -> LoadDocument(m, f.data, t)

\* load_data raises (and prints) on the file f
LoadRaises(f) ==
  \/ f.kind = "malformed"
  \/ /\ f.kind = "json"
     /\ \/ "created_date" \in DOMAIN f.data /\ ~IsIsoString(f.data["created_date"])
        \/ /\ "contributors" \in DOMAIN f.data
           /\ \E i \in 1..Len(f.data["contributors"]) :
                ~RecordLoads(f.data["contributors"][i][2])

\* ProjectTracker(project_name=pn, data_file=f) constructed at time t
NewTracker(pn, f, t) == load_data(Mem(pn, t, EmptyDict, << >>), f, t)

\* ----------------------------------------------------- data files at start
\* three contributions recorded at time 0
ThreeContributions ==
  [i \in 1..3 |-> Contribution("repo", "bug-fix", "desc", None, 0)]

\* a document written by an earlier run: one contributor, three contributions
SavedDocument ==
  [ project_name |-> "Saved", created_date |-> isoformat(0),
    contributors |->
      << << "u1", [ name |-> "Ann", github_username |-> "u1", email |-> "ann@x.org",
                    joined_date |-> isoformat(0),
                    contributions |-> ThreeContributions ] >> >> ]

\* a document whose second contributor record has no "name"
MissingNameDocument ==
  [ project_name |-> "Saved", created_date |-> isoformat(0),
    contributors |->
      << << "u1", [ name |-> "Ann", github_username |-> "u1", email |-> "",
                    joined_date |-> isoformat(0), contributions |-> << >> ] >>,
         << "u2", [ github_username |-> "u2", email |-> "" ] >> >> ]

\* a document whose created_date is no ISO date
BadCreatedDateDocument ==
  [ project_name |-> "Saved", created_date |-> "yesterday",
    contributors |-> << << "u1", [ name |-> "Ann", github_username |-> "u1" ] >> >> ]

\* a document whose only contributor record has a joined_date that is no ISO date
BadJoinedDateDocument ==
  [ project_name |-> "Saved",
    contributors |->
      << << "u2", [ name |-> "Bob", github_username |-> "u2",
                    joined_date |-> "yesterday" ] >> >> ]

\* a document that stores under the key "u1" a record whose github_username is "u2"
MismatchedKeyDocument ==
  [ contributors |->
      << << "u1", [ name |-> "Bob", github_username |-> "u2", email |-> "",
                    joined_date |-> isoformat(0), contributions |-> << >> ] >> >> ]

\* the data files a tracker may be constructed over
InitialFiles ==
  { MissingFile, MalformedFile, JsonFile(SavedDocument),
    JsonFile(MissingNameDocument), JsonFile(BadCreatedDateDocument),
    JsonFile(BadJoinedDateDocument), JsonFile(MismatchedKeyDocument) }

\* the data files a tracker with email notifications is constructed over; the
\* other files are followed without a notifier
NotifiedFiles == { MissingFile, JsonFile(SavedDocument) }

\* ----------------------------------------------------------------- helpers
\* the times datetime.now() may return in the next call
NextTimes == {t \in Times : now <= t /\ t <= now + 1}

RECURSIVE SumCounts(_, _)
SumCounts(cs, keys) ==
  IF keys = {} THEN 0
  ELSE LET k == CHOOSE x \in keys : TRUE
       IN Len(cs[k].contributions) + SumCounts(cs, keys \ {k})

\* number of contributions in the collection
TotalContributions(cs) == SumCounts(cs, DOMAIN cs)

\* the tracker's current state as one value
Current == Mem(project_name, created_date, contributors, key_order)

\* the file writes that may happen next: a write fails at most MaxWriteFailures times
AllowedOutcomes ==
  IF failures < MaxWriteFailures THEN WriteOutcomes ELSE {"ok"}

Failed(outcome) == IF outcome = "ok" THEN 0 ELSE 1

NoCall == [op |-> "none", user |-> "", ret |-> None, write |-> "none"]
Call(op, user, ret, write) == [op |-> op, user |-> user, ret |-> ret, write |-> write]

\* the widgets of HacktoberfestDesktopUI as setup_window .. create_notebook
\* leave them, before load_initial_data
NoWindow ==
  /\ name_var = "" /\ username_var = "" /\ email_var = ""
  /\ contrib_username_var = "" /\ repo_var = "" /\ type_var = ""
  /\ description_var = "" /\ pr_var = ""
  /\ sort_var = "score"
  /\ search_var = ""
  /\ stats_vars = [contributors |-> "0", contributions |-> "0", completion |-> "0%"]
  /\ contributors_tree = << >>
  /\ leaderboard_tree = << >>
  /\ top_contributor_var = "Loading..."
  /\ longest_streak_var = "Loading..."
  /\ most_badges_var = "Loading..."
  /\ messagebox = "none"
  /\ event = "none"

\* ------------------------------------------------------------------- Init
\* ProjectTracker.__init__ up to, not including, its call of load_data
Init ==
  /\ pc = "new"
  /\ project_name = DefaultProjectName
  /\ now = 0
  /\ created_date = now
  /\ contributors = EmptyDict
  /\ key_order = << >>
  /\ file \in InitialFiles
  /\ notifier \in IF file \in NotifiedFiles THEN BOOLEAN ELSE {FALSE}
  /\ welcomed = << >>
  /\ failures = 0
  /\ added = 0
  /\ last = NoCall
  /\ sent = << >>
  /\ has_username = FALSE
  /\ NoWindow

\* ProjectTracker.__init__: self.load_data()
Construct ==
  /\ pc = "new"
  /\ pc' = "ready"
  /\ LET m == load_data(Current, file, now)
     IN /\ project_name' = m.project_name
        /\ created_date' = m.created_date
        /\ contributors' = m.contributors
        /\ key_order' = m.key_order
  /\ last' = Call("__init__", "", None, "none")
  /\ sent' = << >>
  /\ UNCHANGED << notifier, welcomed, file, now, failures, added >>
  /\ UNCHANGED ui_vars

\* ProjectTracker.load_data called on a constructed tracker
LoadData ==
  /\ pc = "ready"
  /\ \E t \in NextTimes :
       /\ now' = t
       /\ LET m == load_data(Current, file, t)
          IN /\ project_name' = m.project_name
             /\ created_date' = m.created_date
             /\ contributors' = m.contributors
             /\ key_order' = m.key_order
  /\ last' = Call("load_data", "", None, "none")
  /\ sent' = << >>
  /\ UNCHANGED << pc, notifier, welcomed, file, failures, added >>
  /\ UNCHANGED ui_vars

\* ProjectTracker.save_data called on a constructed tracker
SaveData ==
  /\ pc = "ready"
  /\ \E outcome \in AllowedOutcomes :
       /\ file' = save_data(Current, file, outcome)
       /\ failures' = failures + Failed(outcome)
       /\ last' = Call("save_data", "", None, outcome)
  /\ sent' = << >>
  /\ UNCHANGED << pc, project_name, created_date, contributors, key_order,
                  notifier, welcomed, now, added >>
  /\ UNCHANGED ui_vars

\* the welcome email of add_contributor, lines 82-84
welcome_email(name, github_username, email) ==
  IF notifier /\ email # ""
  THEN << [kind |-> "welcome", to |-> email, username |-> github_username,
           count |-> 0, complete |-> FALSE] >>
  ELSE << >>

\* a return of the existing contributor that saves the collection
ReturnExisting_saving(github_username) ==
  /\ \E outcome \in AllowedOutcomes :
       /\ file' = save_data(Current, file, outcome)
       /\ failures' = failures + Failed(outcome)
       /\ last' = Call("add_contributor", github_username,
                       contributors[github_username], outcome)
  /\ sent' = << >>
  /\ UNCHANGED << contributors, key_order, now, welcomed >>

\* a return of the existing contributor that welcomes the contributor again
ReturnExisting_welcoming(github_username) ==
  /\ last' = Call("add_contributor", github_username,
                  contributors[github_username], "none")
  /\ sent' = welcome_email(contributors[github_username].name, github_username,
                           contributors[github_username].email)
  /\ welcomed' = welcomed \o [i \in 1..Len(sent') |-> sent'[i].username]
  /\ UNCHANGED << contributors, key_order, file, failures, now >>

\* add_contributor, lines 76-77: the username is a key of the collection
ReturnExisting(github_username) ==
  /\ last' = Call("add_contributor", github_username,
                  contributors[github_username], "none")
  /\ sent' = << >>
  /\ UNCHANGED << contributors, key_order, file, failures, now, welcomed >>

\* an add_contributor that takes the new contributor out of the collection
\* again when the write of save_data fails
CreateContributor_undoing(name, github_username, email) ==
  \E t \in NextTimes, outcome \in AllowedOutcomes :
    LET contributor == Contributor(name, github_username, email, t)
        cs == Put(contributors, github_username, contributor)
        order == PutOrder(contributors, key_order, github_username)
    IN /\ now' = t
       /\ contributors' = IF outcome = "ok" THEN cs ELSE contributors
       /\ key_order' = IF outcome = "ok" THEN order ELSE key_order
       /\ sent' = << >>
       /\ welcomed' = welcomed
       /\ file' = save_data(Mem(project_name, created_date, cs, order), file, outcome)
       /\ failures' = failures + Failed(outcome)
       /\ last' = Call("add_contributor", github_username, contributor, outcome)

\* add_contributor, lines 79-87: create, store, welcome, save
CreateContributor(name, github_username, email) ==
  \E t \in NextTimes, outcome \in AllowedOutcomes :
    LET contributor == Contributor(name, github_username, email, t)
        cs == Put(contributors, github_username, contributor)
        order == PutOrder(contributors, key_order, github_username)
    IN /\ now' = t
       /\ contributors' = cs
       /\ key_order' = order
       /\ sent' = welcome_email(name, github_username, email)
       /\ welcomed' = welcomed \o [i \in 1..Len(sent') |-> sent'[i].username]
       /\ file' = save_data(Mem(project_name, created_date, cs, order), file, outcome)
       /\ failures' = failures + Failed(outcome)
       /\ last' = Call("add_contributor", github_username, contributor, outcome)

\* an add_contributor without the check of lines 76-77
add_contributor_overwriting(name, github_username, email) ==
  /\ pc = "ready"
  /\ CreateContributor(name, github_username, email)
  /\ UNCHANGED << pc, project_name, created_date, notifier, added >>

\* ProjectTracker.add_contributor(name, github_username, email)
add_contributor(name, github_username, email) ==
  /\ pc = "ready"
  /\ IF github_username \in DOMAIN contributors
     THEN ReturnExisting(github_username)
     ELSE CreateContributor(name, github_username, email)
  /\ UNCHANGED << pc, project_name, created_date, notifier, added >>

\* ProjectTracker.get_contributor
get_contributor(cs, github_username) ==
  IF github_username \in DOMAIN cs THEN cs[github_username] ELSE None

\* add_contribution, lines 117-118: no such contributor
ReturnFalse(github_username) ==
  /\ last' = Call("add_contribution", github_username, FALSE, "none")
  /\ sent' = << >>
  /\ UNCHANGED << contributors, file, failures, now, added >>

\* a notification that is sent only when the contributor is complete
milestone_notification_on_completion(contributor, github_username) ==
  IF notifier /\ contributor.email # "" /\ is_hacktoberfest_complete(contributor)
  THEN << [kind |-> "milestone", to |-> contributor.email,
           username |-> github_username,
           count |-> get_contribution_count(contributor),
           complete |-> is_hacktoberfest_complete(contributor)] >>
  ELSE << >>

\* add_contribution, lines 123-134: what is sent after the append;
\* contribution_count % 1 == 0 holds for every count
milestone_notification(contributor, github_username) ==
  IF notifier /\ contributor.email # ""
  THEN << [kind |-> "milestone", to |-> contributor.email,
           username |-> github_username,
           count |-> get_contribution_count(contributor),
           complete |-> is_hacktoberfest_complete(contributor)] >>
  ELSE << >>

\* add_contribution, lines 120-137: append, notify, save; ret is the result
AppendContribution(github_username, repo_name, contribution_type, description, pr_number, ret) ==
  /\ added < MaxAdded
  /\ added' = added + 1
  /\ \E t \in NextTimes, outcome \in AllowedOutcomes :
       LET contributor ==
             contributor_add_contribution(
               contributors[github_username],
               Contribution(repo_name, contribution_type, description, pr_number, t))
           cs == [contributors EXCEPT ![github_username] = contributor]
       IN /\ now' = t
          /\ contributors' = cs
          /\ sent' = milestone_notification(contributor, github_username)
          /\ file' = save_data(Mem(project_name, created_date, cs, key_order),
                               file, outcome)
          /\ failures' = failures + Failed(outcome)
          /\ last' = Call("add_contribution", github_username, ret, outcome)

\* an add_contribution that saves before it returns False
add_contribution_saving(github_username, repo_name, contribution_type, description, pr_number) ==
  /\ pc = "ready"
  /\ IF get_contributor(contributors, github_username) = None
     THEN /\ \E outcome \in AllowedOutcomes :
               /\ file' = save_data(Current, file, outcome)
               /\ failures' = failures + Failed(outcome)
               /\ last' = Call("add_contribution", github_username, FALSE, outcome)
          /\ sent' = << >>
          /\ UNCHANGED << contributors, now, added >>
     ELSE AppendContribution(github_username, repo_name, contribution_type,
                             description, pr_number, TRUE)
  /\ UNCHANGED << pc, project_name, created_date, key_order, notifier, welcomed >>

\* an add_contribution that returns False after it has appended
add_contribution_returning_false(github_username, repo_name, contribution_type, description, pr_number) ==
  /\ pc = "ready"
  /\ IF get_contributor(contributors, github_username) = None
     THEN ReturnFalse(github_username)
     ELSE AppendContribution(github_username, repo_name, contribution_type,
                             description, pr_number, FALSE)
  /\ UNCHANGED << pc, project_name, created_date, key_order, notifier, welcomed >>

\* ProjectTracker.add_contribution(github_username, repo_name, type, description, pr_number)
add_contribution(github_username, repo_name, contribution_type, description, pr_number) ==
  /\ pc = "ready"
  /\ IF get_contributor(contributors, github_username) = None
     THEN ReturnFalse(github_username)
     ELSE AppendContribution(github_username, repo_name, contribution_type,
                             description, pr_number, TRUE)
  /\ UNCHANGED << pc, project_name, created_date, key_order, notifier, welcomed >>

AddContributor ==
  /\ \E p \in Profiles, u \in Users : add_contributor(p[1], u, p[2])
  /\ UNCHANGED ui_vars

AddContribution ==
  /\ \E u \in Users, repo \in Repos, ty \in ContributionTypes,
        d \in Descriptions, pr \in PrNumbers :
       add_contribution(u, repo, ty, d, pr)
  /\ UNCHANGED ui_vars

\* ------------------------------------------------------------- CSV import
\* the rows CSVHandler reads from a contributors file: (name, github_username,
\* email); a row without a github_username is reported as an error
CsvContributorFiles ==
  { << >>,
    << << "Bob", "u2", "" >>, << "Eve", "", "" >>, << "Ann", "u2", "ann@x.org" >> >> }

\* the rows CSVHandler reads from a contributions file: the github_username of
\* each row; contributions_file = None is NoCsvFile
NoCsvFile == [given |-> FALSE, rows |-> << >>]
CsvContributionFiles ==
  { NoCsvFile, [given |-> TRUE, rows |-> << "u2", "u1" >>] }

\* where CSVHandler raises during import_from_csv, if it does
CsvRaises == {"nowhere", "contributors", "contributions"}

\* CSVHandler.import_contributors_from_csv: one Contributor per row that has
\* a github_username, one error per other row
import_contributors_from_csv(rows, t) ==
  LET valid == SelectSeq(rows, LAMBDA row : row[2] # "")
  IN [ imported_contributors |->
         [i \in 1..Len(valid) |-> Contributor(valid[i][1], valid[i][2], valid[i][3], t)],
       errors |-> Len(rows) - Len(valid) ]

\* the errors CSVHandler.import_contributions_from_csv reports: one per row of
\* an unknown username
import_errors(cs, rows) == Len(SelectSeq(rows, LAMBDA u : u \notin DOMAIN cs))

\* what a call of import_from_csv was given: the usernames and the number of
\* row errors CSVHandler returned, and whether CSVHandler raised
Imported(usernames, errors, raised) ==
  [imported |-> usernames, errors |-> errors, raised |-> raised]

\* CSVHandler.import_contributions_from_csv: a row of a known username appends
\* a contribution to that contributor; a row of an unknown one is an error
RECURSIVE import_contributions_from_csv(_, _, _)
import_contributions_from_csv(cs, rows, t) ==
  IF Len(rows) = 0 THEN cs
  ELSE LET u == Head(rows)
           appended == IF u \in DOMAIN cs
                    THEN [cs EXCEPT ![u] = contributor_add_contribution(
                            @, Contribution("repo", "bug-fix", "desc", None, t))]
                    ELSE cs
       IN import_contributions_from_csv(appended, Tail(rows), t)

\* a loop over imported_contributors that stores every imported contributor
RECURSIVE AddImported_overwriting(_, _, _)
AddImported_overwriting(imported, cs, order) ==
  IF Len(imported) = 0 THEN [contributors |-> cs, key_order |-> order]
  ELSE LET contributor == Head(imported)
           u == contributor.github_username
       IN AddImported_overwriting(Tail(imported), Put(cs, u, contributor),
                                  PutOrder(cs, order, u))

\* the loop of import_from_csv over imported_contributors
RECURSIVE AddImported(_, _, _)
AddImported(imported, cs, order) ==
  IF Len(imported) = 0 THEN [contributors |-> cs, key_order |-> order]
  ELSE LET contributor == Head(imported)
           u == contributor.github_username
       IN IF u \in DOMAIN cs
          THEN AddImported(Tail(imported), cs, order)
          ELSE AddImported(Tail(imported), Put(cs, u, contributor), Append(order, u))

\* an import_from_csv that reports success only when no row error was met
import_result_without_errors(imported_contributors, errors) == errors = 0

\* import_from_csv, line 582: return len(imported_contributors) > 0
import_result(imported_contributors, errors) == Len(imported_contributors) > 0

\* ProjectTracker.import_from_csv(contributors_file, contributions_file)
import_from_csv(contributors_file, contributions_file, raises) ==
  /\ pc = "ready"
  /\ sent' = << >>
  /\ \E t \in NextTimes :
       LET read == import_contributors_from_csv(contributors_file, t)
           imported_contributors == read.imported_contributors
           usernames == [i \in 1..Len(imported_contributors) |->
                           imported_contributors[i].github_username]
           imported == AddImported(imported_contributors, contributors, key_order)
       IN /\ now' = t
          /\ IF raises = "contributors"
             THEN /\ last' = Call("import_from_csv", Imported(<< >>, 0, TRUE),
                                  FALSE, "none")
                  /\ UNCHANGED << contributors, key_order, file, failures, added >>
             ELSE IF Len(imported_contributors) = 0
             THEN /\ last' = Call("import_from_csv",
                                  Imported(usernames, read.errors, FALSE), FALSE, "none")
                  /\ UNCHANGED << contributors, key_order, file, failures, added >>
             ELSE IF raises = "contributions" /\ contributions_file.given
             THEN /\ contributors' = imported.contributors
                  /\ key_order' = imported.key_order
                  /\ last' = Call("import_from_csv",
                                  Imported(usernames, read.errors, TRUE), FALSE, "none")
                  /\ UNCHANGED << file, failures, added >>
             ELSE \E outcome \in AllowedOutcomes :
                    LET cs == IF contributions_file.given
                              THEN import_contributions_from_csv(
                                     imported.contributors, contributions_file.rows, t)
                              ELSE imported.contributors
                        n == TotalContributions(cs) - TotalContributions(imported.contributors)
                    IN /\ added + n <= MaxAdded
                       /\ added' = added + n
                       /\ contributors' = cs
                       /\ key_order' = imported.key_order
                       /\ file' = save_data(
                            Mem(project_name, created_date, cs, imported.key_order),
                            file, outcome)
                       /\ failures' = failures + Failed(outcome)
                       /\ last' = LET errors == read.errors
                                     + (IF contributions_file.given
                                        THEN import_errors(imported.contributors,
                                                           contributions_file.rows)
                                        ELSE 0)
                                  IN Call("import_from_csv",
                                          Imported(usernames, errors, FALSE),
                                          import_result(imported_contributors, errors),
                                          outcome)
  /\ UNCHANGED << pc, project_name, created_date, notifier, welcomed >>

\* the calls of import_from_csv: CSVHandler raises while reading a file it is given
ImportCalls ==
  { c \in CsvContributorFiles \X CsvContributionFiles \X CsvRaises :
      /\ c[3] = "contributors" => c[1] = << >> /\ c[2] = NoCsvFile
      /\ c[3] = "contributions" => c[1] # << >> /\ c[2].given }

ImportFromCsv ==
  /\ \E c \in ImportCalls : import_from_csv(c[1], c[2], c[3])
  /\ UNCHANGED ui_vars

Next ==
  \/ Construct
  \/ LoadData
  \/ SaveData
  \/ AddContributor
  \/ AddContribution
  \/ ImportFromCsv

Spec == Init /\ [][Next]_vars

\* ----------------------------------------------------------------- queries
\* a get_completed_contributors that lists only those beyond four contributions
get_completed_contributors_strict(cs, order) ==
  SelectSeq(order, LAMBDA k : get_contribution_count(cs[k]) > 4)

\* ProjectTracker.get_completed_contributors: the contributors for which
\* is_hacktoberfest_complete holds, in the order of the collection, each named
\* by its key
get_completed_contributors(cs, order) ==
  SelectSeq(order, LAMBDA k : is_hacktoberfest_complete(cs[k]))

\* list(self.contributors.values()): the contributors in the order of the collection
get_all_contributors(cs, order) == [i \in 1..Len(order) |-> cs[order[i]]]

\* a sum that counts each distinct contribution of the collection once
sum_contribution_counts_distinct(cl) ==
  Cardinality(UNION { {cl[i].contributions[j] : j \in 1..Len(cl[i].contributions)} :
                      i \in 1..Len(cl) })

\* get_project_stats, line 177: sum(c.get_contribution_count() for c in contributors)
RECURSIVE sum_contribution_counts(_)
sum_contribution_counts(cl) ==
  IF Len(cl) = 0 THEN 0
  ELSE get_contribution_count(Head(cl)) + sum_contribution_counts(Tail(cl))

\* the contributions of the contributors cl, in the order of the two loops of
\* lines 184-185
RECURSIVE all_contributions(_)
all_contributions(cl) ==
  IF Len(cl) = 0 THEN << >>
  ELSE Head(cl).contributions \o all_contributions(Tail(cl))

\* greatest common divisor of a > 0 and b >= 0
RECURSIVE Gcd(_, _)
Gcd(a, b) == IF b = 0 THEN a ELSE Gcd(b, a % b)

\* the number a / b of a true division, b > 0, as a fraction in lowest terms
TrueDiv(a, b) == [num |-> a \div Gcd(b, a), den |-> b \div Gcd(b, a)]

\* the number 0 of the else branches of lines 198-199
Zero == [num |-> 0, den |-> 1]

\* f"{(a / b * 100):.1f}%": one digit after the point, rounded to the nearest
FormatPercent(a, b) ==
  LET tenths == (2000 * a + b) \div (2 * b)
  IN ToString(tenths \div 10) \o "." \o ToString(tenths % 10) \o "%"

\* a completion rate that is formatted for an empty collection too
completion_rate_formatted(completed_count, n) ==
  FormatPercent(completed_count, IF n # 0 THEN n ELSE 1)

\* get_project_stats, line 198: the rate of completed among n contributors
completion_rate(completed_count, n) ==
  IF n # 0 THEN FormatPercent(completed_count, n) ELSE "0%"

\* ProjectTracker.get_project_stats on the tracker state m
get_project_stats(m) ==
  LET contribs == get_all_contributors(m.contributors, m.key_order)
      total_contributions == sum_contribution_counts(contribs)
      completed_count == Len(get_completed_contributors(m.contributors, m.key_order))
      cl == all_contributions(contribs)
      types == {cl[i].type : i \in 1..Len(cl)}
  IN [ project_name |-> m.project_name,
       total_contributors |-> Len(contribs),
       total_contributions |-> total_contributions,
       completed_hacktoberfest |-> completed_count,
       completion_rate |-> completion_rate(completed_count, Len(contribs)),
       avg_contributions_per_contributor |->
         IF Len(contribs) # 0 THEN TrueDiv(total_contributions, Len(contribs))
         ELSE Zero,
       unique_repositories |-> Cardinality({cl[i].repo_name : i \in 1..Len(cl)}),
       contributions_by_type |->
         [ty \in types |-> Cardinality({i \in 1..Len(cl) : cl[i].type = ty})],
       created_date |-> isoformat(m.created_date) ]

\* a str value where None may stand as well
PyStr(s) == [type |-> "str", v |-> s]

\* the place of a date string among the strings of the model in the order of
\* str comparison; '' comes first
StrRank(s) == IF IsIsoString(s) THEN fromisoformat(s) + 1 ELSE 0

Reversed(s) == [i \in 1..Len(s) |-> s[Len(s) + 1 - i]]

\* the pair e = (key, item) put into the pairs s, which are in non-increasing
\* key order, behind every pair whose key is not smaller
InsertPair(s, e) ==
  LET n == Cardinality({i \in 1..Len(s) : s[i][1] >= e[1]})
  IN SubSeq(s, 1, n) \o << e >> \o SubSeq(s, n + 1, Len(s))

RECURSIVE SortPairs(_)
SortPairs(pairs) ==
  IF Len(pairs) = 0 THEN << >>
  ELSE InsertPair(SortPairs(SubSeq(pairs, 1, Len(pairs) - 1)), pairs[Len(pairs)])

\* a sort by ascending key whose result is reversed afterwards
sorted_then_reversed(items, keys) ==
  LET s == SortPairs([i \in 1..Len(items) |->
                       << Reversed(keys)[i], Reversed(items)[i] >>])
  IN [i \in 1..Len(s) |-> s[i][2]]

\* sorted(items, key=..., reverse=True), keys[i] being the key of items[i]:
\* non-increasing keys, items of equal key in the order they had
sorted_reverse(items, keys) ==
  LET s == SortPairs([i \in 1..Len(items) |-> << keys[i], items[i] >>])
  IN [i \in 1..Len(s) |-> s[i][2]]

\* get_leaderboard, lines 153-160: the latest date among the contributions cl
RECURSIVE latest_contribution(_, _)
latest_contribution(cl, latest) ==
  IF Len(cl) = 0 THEN latest
  ELSE LET contrib_date == Head(cl).date
       IN IF latest = None \/ latest.v = ""
             \/ StrRank(contrib_date) > StrRank(latest.v)
          THEN latest_contribution(Tail(cl), PyStr(contrib_date))
          ELSE latest_contribution(Tail(cl), latest)

\* get_leaderboard, lines 162-170: the entry of one contributor
leaderboard_entry(contributor) ==
  [ name |-> contributor.name,
    github_username |-> contributor.github_username,
    email |-> contributor.email,
    contribution_count |-> get_contribution_count(contributor),
    unique_repositories |->
      Cardinality({contributor.contributions[i].repo_name :
                     i \in 1..Len(contributor.contributions)}),
    latest_contribution |-> latest_contribution(contributor.contributions, None),
    joined_date |-> isoformat(contributor.joined_date) ]

\* ProjectTracker.get_leaderboard
get_leaderboard(cs, order) ==
  LET contributors_with_stats ==
        [i \in 1..Len(order) |-> leaderboard_entry(cs[order[i]])]
  IN sorted_reverse(contributors_with_stats,
                    [i \in 1..Len(order) |-> contributors_with_stats[i].contribution_count])

\* the record contribution with the key 'contributor' set
WithContributor(contribution, contributor) ==
  [k \in DOMAIN contribution \cup {"contributor"} |->
     IF k = "contributor" THEN contributor ELSE contribution[k]]

\* a contribution_data that is the stored record itself: the key is set in
\* the record the collection holds
contribution_data_in_place(contribution, contributor) ==
  [ data |-> WithContributor(contribution, contributor),
    stored |-> WithContributor(contribution, contributor),
    same_object |-> TRUE ]

\* get_recent_contributions, lines 211-212: contribution_data is a copy of the
\* stored record and gets the key 'contributor'; data is the record appended
\* to all_contributions, stored the record the collection holds afterwards,
\* same_object tells whether the two are one dict
contribution_data(contribution, contributor) ==
  [ data |-> WithContributor(contribution, contributor),
    stored |-> contribution,
    same_object |-> FALSE ]

\* get_recent_contributions, lines 210-213: the contributions of the
\* contributors cl, each with its contributor
RECURSIVE contributions_with_contributor(_)
contributions_with_contributor(cl) ==
  IF Len(cl) = 0 THEN << >>
  ELSE LET contributor == Head(cl)
       IN [i \in 1..Len(contributor.contributions) |->
             contribution_data(contributor.contributions[i], contributor).data]
          \o contributions_with_contributor(Tail(cl))

\* default of the limit parameter of get_recent_contributions
DefaultLimit == 10

\* a get_recent_contributions that cuts the list before it sorts it
get_recent_contributions_cut_first(cs, order, limit) ==
  LET all == contributions_with_contributor(get_all_contributors(cs, order))
      cut == SubSeq(all, 1, IF limit < Len(all) THEN limit ELSE Len(all))
  IN sorted_reverse(cut, [i \in 1..Len(cut) |-> StrRank(cut[i].date)])

\* ProjectTracker.get_recent_contributions(limit)
get_recent_contributions(cs, order, limit) ==
  LET all == contributions_with_contributor(get_all_contributors(cs, order))
      s == sorted_reverse(all, [i \in 1..Len(all) |-> StrRank(all[i].date)])
  IN SubSeq(s, 1, IF limit < Len(s) THEN limit ELSE Len(s))

\* the collection after the loops of lines 209-213 of get_recent_contributions
collection_after_recent(cs) ==
  [u \in DOMAIN cs |->
     [cs[u] EXCEPT !.contributions =
        [i \in 1..Len(cs[u].contributions) |->
           contribution_data(cs[u].contributions[i], cs[u]).stored]]]

\* where the records of the loops of lines 209-213 are stored: the key of the
\* contributor and the index of the contribution
RECURSIVE contribution_places(_, _)
contribution_places(cs, order) ==
  IF Len(order) = 0 THEN << >>
  ELSE [i \in 1..Len(cs[Head(order)].contributions) |->
          [ key |-> Head(order), index |-> i,
            date |-> cs[Head(order)].contributions[i].date,
            same_object |->
              contribution_data(cs[Head(order)].contributions[i],
                                cs[Head(order)]).same_object ]]
       \o contribution_places(cs, Tail(order))

\* where the records returned by get_recent_contributions(limit) are stored,
\* in the order of the list returned
recent_places(cs, order, limit) ==
  LET all == contribution_places(cs, order)
      s == sorted_reverse(all, [i \in 1..Len(all) |-> StrRank(all[i].date)])
  IN SubSeq(s, 1, IF limit < Len(s) THEN limit ELSE Len(s))

\* ------------------------------------------------- metrics (PerformanceMetrics)
\* engagement scores in hundredths; the formula is a policy of PerformanceMetrics,
\* a call is given the score of each username
Scores == {104, 150}
ScoreAssignments == [Users -> Scores]

\* the days on which the contributor c has a contribution
ActiveDays(c) == {fromisoformat(c.contributions[i].date) : i \in 1..Len(c.contributions)}

\* the longest run of consecutive active days of the contributor c
contribution_streak(c) ==
  LET days == ActiveDays(c)
      runs == {n \in 0..Len(IsoTable) : \E d \in 0..Len(IsoTable) : d..(d + n - 1) \subseteq days}
  IN CHOOSE n \in runs : \A k \in runs : k <= n

\* PerformanceMetrics.calculate_contributor_metrics, given the score
calculate_contributor_metrics(c, score) ==
  [ total_contributions |-> get_contribution_count(c),
    contribution_streak |-> contribution_streak(c),
    days_active |-> Cardinality(ActiveDays(c)),
    engagement_score |-> score,
    hacktoberfest_complete |-> is_hacktoberfest_complete(c) ]

\* the empty mapping {}
EmptyMapping == << >>

\* ProjectTracker.get_contributor_metrics
get_contributor_metrics(cs, github_username, scores) ==
  IF get_contributor(cs, github_username) = None THEN EmptyMapping
  ELSE calculate_contributor_metrics(cs[github_username], scores[github_username])

\* a float: 0.0 is FloatValue(0)
FloatValue(hundredths) == [type |-> "float", hundredths |-> hundredths]

\* a get_engagement_score without the check of lines 418-419
get_engagement_score_unchecked(cs, github_username, scores) ==
  FloatValue(scores[github_username])

\* ProjectTracker.get_engagement_score
get_engagement_score(cs, github_username, scores) ==
  IF get_contributor(cs, github_username) = None THEN FloatValue(0)
  ELSE FloatValue(scores[github_username])

\* PerformanceMetrics.get_contributors_ranking: the contributors cl by
\* engagement score, highest first, with their ranks
ranking(cl, scores) ==
  LET s == sorted_reverse(cl, [i \in 1..Len(cl) |-> scores[cl[i].github_username]])
  IN [i \in 1..Len(s) |->
        [ rank |-> i, username |-> s[i].github_username,
          engagement_score |-> scores[s[i].github_username] ]]

\* ProjectTracker.get_contributors_ranking
get_contributors_ranking(cs, order, scores) ==
  ranking(get_all_contributors(cs, order), scores)

\* PerformanceMetrics.calculate_project_metrics, the entries the dashboard reads
calculate_project_metrics(cl) ==
  [ total_contributors |-> Len(cl),
    total_contributions |-> sum_contribution_counts(cl),
    hacktoberfest_completion_rate |->
      IF Len(cl) = 0 THEN Zero
      ELSE TrueDiv(100 * Cardinality({i \in 1..Len(cl) : is_hacktoberfest_complete(cl[i])}),
                   Len(cl)) ]

\* ProjectTracker.get_project_performance_metrics
get_project_performance_metrics(cs, order) ==
  calculate_project_metrics(get_all_contributors(cs, order))

\* -------------------------------------------------------- desktop UI: views
\* str.strip() on the texts typed into the forms
Strip(text) == IF text = " u2 " THEN "u2" ELSE IF text = " " THEN "" ELSE text

\* f"{score:.1f}" of a score in hundredths
FormatScore(hundredths) ==
  LET tenths == (hundredths + 5) \div 10
  IN ToString(tenths \div 10) \o "." \o ToString(tenths % 10)

\* float(text) of a text written by FormatScore, in tenths
ParseFloat(text) == CHOOSE tenths \in 0..20 : FormatScore(10 * tenths) = text

\* f"{streak} days"
FormatDays(n) == ToString(n) \o " days"

\* int(text.split()[0]) of a text written by FormatDays
ParseDays(text) == CHOOSE n \in 0..Len(IsoTable) : FormatDays(n) = text

\* f"{rate:.0f}%" of a rate given as a fraction
FormatRate(rate) == ToString((2 * rate.num + rate.den) \div (2 * rate.den)) \o "%"

\* update_dashboard_stats: the three counters
update_dashboard_stats(metrics) ==
  [ contributors |-> ToString(metrics.total_contributors),
    contributions |-> ToString(metrics.total_contributions),
    completion |-> FormatRate(metrics.hacktoberfest_completion_rate) ]

\* refresh_contributors_list: the table is cleared, then one row is inserted
\* per contributor; reading contributor.username raises when Contributor has
\* no such attribute
refresh_contributors_list(cs, order, scores) ==
  IF Len(order) > 0 /\ ~has_username
  THEN [raises |-> TRUE, tree |-> << >>]
  ELSE [raises |-> FALSE,
        tree |-> [i \in 1..Len(order) |->
                    LET contributor == cs[order[i]]
                        metrics == get_contributor_metrics(cs, contributor.github_username, scores)
                    IN [ username |-> contributor.github_username,
                         name |-> contributor.name,
                         email |-> contributor.email,
                         contributions |-> metrics.total_contributions,
                         status |-> IF metrics.hacktoberfest_complete
                                    THEN "complete" ELSE "in progress" ]]]

\* refresh_leaderboard, lines 497-506: the badges of a row, joined by " "
Badges(metrics) ==
  LET a == IF metrics.hacktoberfest_complete THEN << "trophy" >> ELSE << >>
      b == IF metrics.contribution_streak >= 3 THEN << "fire" >> ELSE << >>
      d == IF metrics.total_contributions >= 10 THEN << "star" >> ELSE << >>
      badges == a \o b \o d
  IN IF Len(badges) = 0 THEN ""
     ELSE IF Len(badges) = 1 THEN badges[1]
     ELSE IF Len(badges) = 2 THEN badges[1] \o " " \o badges[2]
     ELSE badges[1] \o " " \o badges[2] \o " " \o badges[3]

\* refresh_leaderboard, lines 496-521: one row per entry of the ranking
LeaderboardRows(cs, rankings, scores) ==
  [i \in 1..Len(rankings) |->
     LET rank == rankings[i]
         metrics == get_contributor_metrics(cs, rank.username, scores)
     IN [ rank |-> rank.rank,
          username |-> rank.username,
          score |-> FormatScore(rank.engagement_score),
          contributions |-> metrics.total_contributions,
          streak |-> FormatDays(metrics.contribution_streak),
          days_active |-> metrics.days_active,
          badges |-> Badges(metrics) ]]

\* refresh_leaderboard, lines 465-477: the first entry of the ranking with the
\* longest streak, if any streak is above 0
LongestStreak(cs, rankings, scores) ==
  LET streak(i) == get_contributor_metrics(cs, rankings[i].username, scores).contribution_streak
      best == {i \in 1..Len(rankings) :
                 /\ streak(i) > 0
                 /\ \A j \in 1..Len(rankings) : streak(j) <= streak(i)
                 /\ \A j \in 1..(i - 1) : streak(j) < streak(i)}
  IN IF best = {} THEN "\n" \o FormatDays(0)
     ELSE LET i == CHOOSE x \in best : TRUE
          IN rankings[i].username \o "\n" \o FormatDays(streak(i))

\* refresh_leaderboard, lines 479-494: the first entry of the ranking with the
\* most badges among hacktoberfest_complete and a streak of 3, if any has one
MostBadges(cs, rankings, scores) ==
  LET n(i) == LET metrics == get_contributor_metrics(cs, rankings[i].username, scores)
              IN (IF metrics.hacktoberfest_complete THEN 1 ELSE 0)
                 + (IF metrics.contribution_streak >= 3 THEN 1 ELSE 0)
      best == {i \in 1..Len(rankings) :
                 /\ n(i) > 0
                 /\ \A j \in 1..Len(rankings) : n(j) <= n(i)
                 /\ \A j \in 1..(i - 1) : n(j) < n(i)}
  IN IF best = {} THEN "\n" \o ToString(0) \o " badges"
     ELSE LET i == CHOOSE x \in best : TRUE
          IN rankings[i].username \o "\n" \o ToString(n(i)) \o " badges"

\* refresh_leaderboard: the table and the three cards; the cards keep their
\* texts when the ranking is empty
refresh_leaderboard(cs, order, scores) ==
  LET rankings == get_contributors_ranking(cs, order, scores)
  IN [ tree |-> LeaderboardRows(cs, rankings, scores),
       top |-> IF Len(rankings) = 0 THEN top_contributor_var
               ELSE rankings[1].username \o "\n"
                    \o FormatScore(rankings[1].engagement_score) \o " pts",
       streak |-> IF Len(rankings) = 0 THEN longest_streak_var
                  ELSE LongestStreak(cs, rankings, scores),
       badges |-> IF Len(rankings) = 0 THEN most_badges_var
                  ELSE MostBadges(cs, rankings, scores) ]

\* the criteria of the "Sort by" box
SortCriteria == {"score", "streak", "contributions"}

\* a sort of the rows that follows the contributions column whatever the criterion
sort_items_by_contributions(items, sort_by) ==
  sorted_reverse(items, [i \in 1..Len(items) |-> items[i].contributions])

\* sort_leaderboard, lines 606-612: the rows sorted by the criterion
sort_items(items, sort_by) ==
  IF sort_by = "score"
  THEN sorted_reverse(items, [i \in 1..Len(items) |-> ParseFloat(items[i].score)])
  ELSE IF sort_by = "streak"
  THEN sorted_reverse(items, [i \in 1..Len(items) |-> ParseDays(items[i].streak)])
  ELSE IF sort_by = "contributions"
  THEN sorted_reverse(items, [i \in 1..Len(items) |-> items[i].contributions])
  ELSE items

\* sort_leaderboard, lines 618-622: the rows reinserted with their new ranks
sort_leaderboard(items, sort_by) ==
  LET s == sort_items(items, sort_by)
  IN [i \in 1..Len(s) |-> [s[i] EXCEPT !.rank = i]]

\* ------------------------------------------------------ desktop UI: handlers
\* the data files the desktop window is started on
UiInitialFiles == NotifiedFiles

\* the texts typed into the "Add Contributor" form: name, username, email
ContributorForms ==
  { << "Ann", "u1", "ann@x.org" >>, << "Bob", " u2 ", "bob@x.org" >>,
    << "Bob", "u2", "" >> }

\* the texts typed into the "Add Contribution" form: username, repository,
\* type, description, PR number
ContributionForms ==
  { << "u1", "repo", "bug-fix", "desc", "" >>,
    << "u2", "repo", "feature", "desc", "42" >>,
    << "u1", "repo", "", "desc", "42" >> }

\* before HacktoberfestDesktopUI.__init__: ProjectTracker() has no notifier.
\* The window is started a day after the saved document was written, and the
\* file writes of its runs succeed (Spec follows the writes that fail).
UiInit ==
  /\ pc = "new"
  /\ project_name = DefaultProjectName
  /\ now = 1
  /\ created_date = now
  /\ contributors = EmptyDict
  /\ key_order = << >>
  /\ notifier = FALSE
  /\ welcomed = << >>
  /\ file \in UiInitialFiles
  /\ failures = MaxWriteFailures
  /\ added = 0
  /\ last = NoCall
  /\ sent = << >>
  /\ has_username \in BOOLEAN
  /\ NoWindow

\* HacktoberfestDesktopUI.__init__: ProjectTracker(), then load_initial_data;
\* the window does not open when refresh_contributors_list raises
UiConstruct ==
  /\ pc = "new"
  /\ \E scores \in ScoreAssignments :
       LET m == load_data(Current, file, now)
           list == refresh_contributors_list(m.contributors, m.key_order, scores)
           board == refresh_leaderboard(m.contributors, m.key_order, scores)
       IN /\ project_name' = m.project_name
          /\ created_date' = m.created_date
          /\ contributors' = m.contributors
          /\ key_order' = m.key_order
          /\ stats_vars' = update_dashboard_stats(
               get_project_performance_metrics(m.contributors, m.key_order))
          /\ contributors_tree' = list.tree
          /\ IF list.raises
             THEN /\ pc' = "crashed"
                  /\ UNCHANGED << leaderboard_tree, stat_cards >>
             ELSE /\ pc' = "ready"
                  /\ leaderboard_tree' = board.tree
                  /\ top_contributor_var' = board.top
                  /\ longest_streak_var' = board.streak
                  /\ most_badges_var' = board.badges
  /\ last' = Call("__init__", "", None, "none")
  /\ sent' = << >>
  /\ event' = "__init__"
  /\ UNCHANGED << notifier, welcomed, file, now, failures, added, has_username,
                  contributor_form, contribution_form, sort_var, search_var,
                  messagebox >>

\* the user types into the "Add Contributor" form, one form at a time
EditContributorForm ==
  /\ pc = "ready"
  /\ contribution_form = << "", "", "", "", "" >>
  /\ \E f \in ContributorForms :
       /\ << name_var, username_var, email_var >> # f
       /\ name_var' = f[1] /\ username_var' = f[2] /\ email_var' = f[3]
  /\ event' = "edit"
  /\ UNCHANGED << tracker_vars, has_username, contribution_form, sort_var,
                  search_var,
                  stats_vars, contributors_tree, leaderboard_tree, stat_cards,
                  messagebox >>

\* the user types into the "Add Contribution" form, one form at a time
EditContributionForm ==
  /\ pc = "ready"
  /\ contributor_form = << "", "", "" >>
  /\ \E f \in ContributionForms :
       /\ << contrib_username_var, repo_var, type_var, description_var, pr_var >> # f
       /\ contrib_username_var' = f[1] /\ repo_var' = f[2] /\ type_var' = f[3]
       /\ description_var' = f[4] /\ pr_var' = f[5]
  /\ event' = "edit"
  /\ UNCHANGED << tracker_vars, has_username, contributor_form, sort_var,
                  search_var,
                  stats_vars, contributors_tree, leaderboard_tree, stat_cards,
                  messagebox >>

\* HacktoberfestDesktopUI.add_contributor: the button of the form
desktop_add_contributor ==
  /\ pc = "ready"
  /\ event' = "add_contributor"
  /\ LET name == Strip(name_var)
         username == Strip(username_var)
         email == Strip(email_var)
     IN IF ~(name # "" /\ username # "" /\ email # "")
        THEN /\ messagebox' = "Error: All fields are required"
             /\ last' = NoCall
             /\ sent' = << >>
             /\ UNCHANGED << pc, project_name, created_date, contributors, key_order,
                             notifier, welcomed, file, now, failures, added >>
             /\ UNCHANGED << contributor_form, contributors_tree >>
        ELSE /\ add_contributor(name, username, email)
             /\ name_var' = "" /\ username_var' = "" /\ email_var' = ""
             /\ \E scores \in ScoreAssignments :
                  LET list == refresh_contributors_list(contributors', key_order', scores)
                  IN /\ contributors_tree' = list.tree
                     /\ messagebox' = IF list.raises
                                      THEN "Error: no attribute 'username'"
                                      ELSE "Success: Added contributor: " \o last'.ret.name
  /\ UNCHANGED << has_username, contribution_form, sort_var, search_var,
                  stats_vars,
                  leaderboard_tree, stat_cards >>

\* HacktoberfestDesktopUI.add_contribution: the button of the form
desktop_add_contribution ==
  /\ pc = "ready"
  /\ event' = "add_contribution"
  /\ LET username == Strip(contrib_username_var)
         repo == Strip(repo_var)
         contrib_type == type_var
         description == Strip(description_var)
         pr_number == Strip(pr_var)
     IN IF ~(username # "" /\ repo # "" /\ contrib_type # "" /\ description # "")
        THEN /\ messagebox' = "Error: Required fields are missing"
             /\ last' = NoCall
             /\ sent' = << >>
             /\ UNCHANGED << pc, project_name, created_date, contributors, key_order,
                             notifier, welcomed, file, now, failures, added >>
             /\ UNCHANGED << contribution_form, contributors_tree,
                             leaderboard_tree, stat_cards >>
        ELSE /\ add_contribution(username, repo, contrib_type, description,
                                 IF pr_number # "" THEN PyStr(pr_number) ELSE None)
             /\ IF last'.ret = TRUE
                THEN /\ contrib_username_var' = "" /\ repo_var' = "" /\ type_var' = ""
                     /\ description_var' = "" /\ pr_var' = ""
                     /\ \E scores \in ScoreAssignments :
                          LET list == refresh_contributors_list(contributors', key_order', scores)
                              board == refresh_leaderboard(contributors', key_order', scores)
                          IN /\ contributors_tree' = list.tree
                             /\ IF list.raises
                                THEN /\ messagebox' = "Error: no attribute 'username'"
                                     /\ UNCHANGED << leaderboard_tree, stat_cards >>
                                ELSE /\ messagebox' = "Success: Contribution added successfully"
                                     /\ leaderboard_tree' = board.tree
                                     /\ top_contributor_var' = board.top
                                     /\ longest_streak_var' = board.streak
                                     /\ most_badges_var' = board.badges
                ELSE /\ messagebox' = "Error: Failed to add contribution"
                     /\ UNCHANGED << contribution_form, contributors_tree,
                                     leaderboard_tree, stat_cards >>
  /\ UNCHANGED << has_username, contributor_form, sort_var, search_var,
                  stats_vars >>

\* HacktoberfestDesktopUI.sort_leaderboard, bound to the "Sort by" box: the
\* user selects a criterion
SelectSort ==
  /\ pc = "ready"
  /\ \E sort_by \in SortCriteria :
       /\ sort_var' = sort_by
       /\ leaderboard_tree' = sort_leaderboard(leaderboard_tree, sort_by)
  /\ event' = "sort_leaderboard"
  /\ last' = NoCall
  /\ sent' = << >>
  /\ UNCHANGED << pc, project_name, created_date, contributors, key_order,
                  notifier, welcomed, file, now, failures, added >>
  /\ UNCHANGED << has_username, contributor_form, contribution_form, stats_vars,
                  search_var, contributors_tree, stat_cards, messagebox >>

\* str.lower() on the texts of the table and of the search box
Lower(text) ==
  CASE text = "Ann" -> "ann"
    [] text = "Bob" -> "bob"
    [] text = "X.ORG" -> "x.org"
    [] OTHER -> text

\* the beginnings and ends of the lowered texts of the table
Fragments ==
  { "", "u", "1", "2", "u1", "u2",
    "a", "an", "ann", "n", "nn", "b", "bo", "bob", "o", "ob",
    "ann@", "ann@x", "ann@x.", "ann@x.o", "ann@x.or", "ann@x.org",
    "bob@", "bob@x", "bob@x.", "bob@x.o", "bob@x.or", "bob@x.org",
    "g", "rg", "org", ".org", "x.org", "@x.org",
    "n@x.org", "nn@x.org", "b@x.org", "ob@x.org" }

\* search_text in text
Contains(search_text, text) ==
  \E before, after \in Fragments : before \o search_text \o after = text

\* filter_contributors, lines 528-530: the row matches the search text
RowMatches(search_text, values) ==
  \/ Contains(search_text, Lower(values.username))
  \/ Contains(search_text, Lower(values.name))
  \/ Contains(search_text, Lower(values.email))

\* filter_contributors: every child of the table is moved to the end when it
\* matches and detached when it does not. children is what get_children()
\* lists, the rows that are attached; the result is the rows attached
\* afterwards. A detached row is not listed by get_children() any more.
filter_contributors(children, text) ==
  SelectSeq(children, LAMBDA values : RowMatches(Lower(text), values))

\* the texts typed into the search box
SearchTexts == {"", "Ann", "X.ORG", "u2"}

\* the user edits the search box; the write to search_var calls
\* filter_contributors
EditSearch ==
  /\ pc = "ready"
  /\ contributor_form = << "", "", "" >>
  /\ contribution_form = << "", "", "", "", "" >>
  /\ \E text \in SearchTexts :
       /\ text # search_var
       /\ search_var' = text
       /\ contributors_tree' = filter_contributors(contributors_tree, text)
  /\ event' = "filter_contributors"
  /\ UNCHANGED << tracker_vars, has_username, contributor_form, contribution_form,
                  sort_var, stats_vars, leaderboard_tree, stat_cards, messagebox >>

UiNext ==
  \/ UiConstruct
  \/ EditContributorForm
  \/ desktop_add_contributor
  \/ EditContributionForm
  \/ desktop_add_contribution
  \/ SelectSort

SpecUI == UiInit /\ [][UiNext]_vars

\* the window with its search box: contributors are added and searched
SearchNext ==
  \/ UiConstruct
  \/ EditContributorForm
  \/ desktop_add_contributor
  \/ EditSearch

SpecSearch == UiInit /\ [][SearchNext]_vars

\* ------------------------------------------------------------------ lookups
\* ProjectTracker.get_contributor called on a constructed tracker
GetContributor ==
  /\ pc = "ready"
  /\ \E u \in Users :
       last' = Call("get_contributor", u, get_contributor(contributors, u), "none")
  /\ sent' = << >>
  /\ UNCHANGED << pc, project_name, created_date, contributors, key_order,
                  notifier, welcomed, file, now, failures, added >>
  /\ UNCHANGED ui_vars

\* ProjectTracker.get_contributor_metrics called on a constructed tracker
GetContributorMetrics ==
  /\ pc = "ready"
  /\ \E u \in Users, scores \in ScoreAssignments :
       last' = Call("get_contributor_metrics", u,
                    get_contributor_metrics(contributors, u, scores), "none")
  /\ sent' = << >>
  /\ UNCHANGED << pc, project_name, created_date, contributors, key_order,
                  notifier, welcomed, file, now, failures, added >>
  /\ UNCHANGED ui_vars

\* ProjectTracker.get_engagement_score called on a constructed tracker
GetEngagementScore ==
  /\ pc = "ready"
  /\ \E u \in Users, scores \in ScoreAssignments :
       last' = Call("get_engagement_score", u,
                    get_engagement_score(contributors, u, scores), "none")
  /\ sent' = << >>
  /\ UNCHANGED << pc, project_name, created_date, contributors, key_order,
                  notifier, welcomed, file, now, failures, added >>
  /\ UNCHANGED ui_vars

\* ProjectTracker.send_notification_to_contributor; the notifier reports
\* whether the notification went out
send_notification_to_contributor(github_username, delivered) ==
  /\ pc = "ready"
  /\ LET contributor == get_contributor(contributors, github_username)
     IN IF ~notifier \/ contributor = None
        THEN /\ last' = Call("send_notification_to_contributor", github_username,
                             FALSE, "none")
             /\ sent' = << >>
        ELSE IF contributor.email = ""
        THEN /\ last' = Call("send_notification_to_contributor", github_username,
                             FALSE, "none")
             /\ sent' = << >>
        ELSE /\ last' = Call("send_notification_to_contributor", github_username,
                             delivered, "none")
             /\ sent' = IF delivered
                        THEN << [kind |-> "milestone", to |-> contributor.email,
                                 username |-> github_username,
                                 count |-> get_contribution_count(contributor),
                                 complete |-> is_hacktoberfest_complete(contributor)] >>
                        ELSE << >>
  /\ UNCHANGED << pc, project_name, created_date, contributors, key_order,
                  notifier, welcomed, file, now, failures, added >>

SendNotificationToContributor ==
  /\ \E u \in Users, delivered \in BOOLEAN : send_notification_to_contributor(u, delivered)
  /\ UNCHANGED ui_vars

\* ProjectTracker.enable_email_notifications: the notifier is set unless
\* EmailNotifier raises
EnableEmailNotifications ==
  /\ pc = "ready"
  /\ \E ok \in BOOLEAN :
       /\ notifier' = IF ok THEN TRUE ELSE notifier
       /\ last' = Call("enable_email_notifications", "", ok, "none")
  /\ sent' = << >>
  /\ UNCHANGED << pc, project_name, created_date, contributors, key_order,
                  welcomed, file, now, failures, added >>
  /\ UNCHANGED ui_vars

\* a tracker over no file or over the saved document, with or without a
\* notifier; its file writes succeed (Spec follows the writes that fail)
LookupInit ==
  /\ pc = "new"
  /\ project_name = DefaultProjectName
  /\ now = 0
  /\ created_date = now
  /\ contributors = EmptyDict
  /\ key_order = << >>
  /\ file \in UiInitialFiles
  /\ notifier \in BOOLEAN
  /\ welcomed = << >>
  /\ failures = MaxWriteFailures
  /\ added = 0
  /\ last = NoCall
  /\ sent = << >>
  /\ has_username = FALSE
  /\ NoWindow

LookupNext ==
  \/ Construct
  \/ AddContributor
  \/ AddContribution
  \/ GetContributor
  \/ GetContributorMetrics
  \/ GetEngagementScore
  \/ SendNotificationToContributor
  \/ EnableEmailNotifications

SpecLookup == LookupInit /\ [][LookupNext]_vars

\* ------------------------------------------------------------------ queries
\* a query called on a constructed tracker: it returns ret and assigns to
\* nothing but, possibly, the records of the collection
Query(op, arg, ret) ==
  /\ pc = "ready"
  /\ last' = Call(op, arg, ret, "none")
  /\ sent' = << >>
  /\ UNCHANGED << pc, project_name, created_date, key_order, notifier, welcomed, file,
                  now, failures, added >>
  /\ UNCHANGED ui_vars

\* ProjectTracker.get_all_contributors called on a constructed tracker
GetAllContributors ==
  /\ Query("get_all_contributors", "", get_all_contributors(contributors, key_order))
  /\ UNCHANGED contributors

\* ProjectTracker.get_completed_contributors called on a constructed tracker
GetCompletedContributors ==
  /\ Query("get_completed_contributors", "",
           get_completed_contributors(contributors, key_order))
  /\ UNCHANGED contributors

\* ProjectTracker.get_leaderboard called on a constructed tracker
GetLeaderboard ==
  /\ Query("get_leaderboard", "", get_leaderboard(contributors, key_order))
  /\ UNCHANGED contributors

\* ProjectTracker.get_project_stats called on a constructed tracker
GetProjectStats ==
  /\ Query("get_project_stats", "", get_project_stats(Current))
  /\ UNCHANGED contributors

\* the limits get_recent_contributions is called with
RecentLimits == {0, 2, DefaultLimit}

\* ProjectTracker.get_recent_contributions called on a constructed tracker
GetRecentContributions ==
  \E limit \in RecentLimits :
    /\ Query("get_recent_contributions", limit,
             get_recent_contributions(contributors, key_order, limit))
    /\ contributors' = collection_after_recent(contributors)

\* the caller of get_all_contributors removes the last element of the list
\* it was given: returned.pop(). The list is the one list(...) built at line
\* 141, the collection is a dict.
MutateReturnedList ==
  /\ pc = "ready"
  /\ last.op = "get_all_contributors"
  /\ Len(last.ret) > 0
  /\ last' = [last EXCEPT !.op = "returned.pop()",
                          !.ret = SubSeq(@, 1, Len(@) - 1)]
  /\ sent' = << >>
  /\ UNCHANGED << pc, project_name, created_date, contributors, key_order,
                  notifier, welcomed, file, now, failures, added >>
  /\ UNCHANGED ui_vars

\* the caller of get_recent_contributions assigns to a key of the first
\* record it was given: returned[0]['description'] = 'edited'. The assignment
\* reaches the collection when that record is the stored dict.
MutateReturnedRecord ==
  /\ pc = "ready"
  /\ last.op = "get_recent_contributions"
  /\ Len(last.ret) > 0
  /\ LET place == recent_places(contributors, key_order, last.user)[1]
     IN /\ last' = [last EXCEPT !.op = "returned[0]['description'] = 'edited'",
                                !.ret[1].description = "edited"]
        /\ contributors' =
             IF place.same_object
             THEN [contributors EXCEPT
                     ![place.key].contributions[place.index].description = "edited"]
             ELSE contributors
  /\ sent' = << >>
  /\ UNCHANGED << pc, project_name, created_date, key_order, notifier, welcomed, file,
                  now, failures, added >>
  /\ UNCHANGED ui_vars

QueryNext ==
  \/ Construct
  \/ AddContributor
  \/ AddContribution
  \/ GetContributor
  \/ GetAllContributors
  \/ GetCompletedContributors
  \/ GetLeaderboard
  \/ GetProjectStats
  \/ GetRecentContributions
  \/ MutateReturnedList
  \/ MutateReturnedRecord

SpecQuery == LookupInit /\ [][QueryNext]_vars

\* ------------------------------------------------------------- properties
IsPrefix(s, t) == Len(s) <= Len(t) /\ SubSeq(t, 1, Len(s)) = s

Range(s) == {s[i] : i \in 1..Len(s)}

\* the keys of the "contributors" object of a JSON data file
FileKeys(f) ==
  IF f.kind = "json" /\ "contributors" \in DOMAIN f.data
  THEN {f.data["contributors"][i][1] : i \in 1..Len(f.data["contributors"])}
  ELSE {}

\* key_order lists each key of the collection once
TypeOK ==
  /\ Range(key_order) = DOMAIN contributors
  /\ Len(key_order) = Cardinality(DOMAIN contributors)
  /\ now \in Times
  /\ added \in 0..MaxAdded
  /\ failures \in 0..MaxWriteFailures

\* C1: add_contributor is idempotent per username. A call for a username that
\* is a key of the collection returns the contributor stored under it and
\* leaves the collection as it is; after any call the collection holds exactly
\* one entry for that username, and it is the contributor returned.
C1_AddContributorIdempotent ==
  [][ last'.op = "add_contributor" =>
        LET u == last'.user
        IN /\ u \in DOMAIN contributors'
           /\ last'.ret = contributors'[u]
           /\ Cardinality({i \in 1..Len(key_order') : key_order'[i] = u}) = 1
           /\ u \in DOMAIN contributors =>
                /\ last'.ret = contributors[u]
                /\ contributors' = contributors
                /\ key_order' = key_order ]_vars

\* C1 witness: add_contributor has returned an existing contributor that
\* already holds a contribution
C1_Witness ==
  /\ last.op = "add_contributor"
  /\ last.write = "none"
  /\ Len(last.ret.contributions) > 0
  /\ Cardinality(DOMAIN contributors) = 2

\* C2: contributions are never removed. In every step each contributor's
\* contribution sequence is a prefix of its sequence in the next state.
C2_ContributionsNeverRemoved ==
  [][ \A u \in DOMAIN contributors \cap DOMAIN contributors' :
        IsPrefix(contributors[u].contributions, contributors'[u].contributions) ]_vars

\* C3: contributors are never deleted. No step removes a key from the
\* collection.
C3_ContributorsNeverDeleted ==
  [][ DOMAIN contributors \subseteq DOMAIN contributors' ]_vars

\* C3 witness: load_data has run again on a tracker that holds a contributor
\* the data file does not hold
C3_Witness ==
  /\ last.op = "load_data"
  /\ file.kind = "json"
  /\ FileKeys(file) # {}
  /\ DOMAIN contributors \ FileKeys(file) # {}

\* C4: add_contribution for a username that is not in the collection returns
\* False and changes nothing: the collection and the data file are as before,
\* no file write is attempted and no notification is sent.
C4_UnknownUserNoEffect ==
  [][ (last'.op = "add_contribution" /\ last'.user \notin DOMAIN contributors) =>
        /\ last'.ret = FALSE
        /\ last'.write = "none"
        /\ sent' = << >>
        /\ UNCHANGED << project_name, created_date, contributors, key_order, file >> ]_vars

\* C4 witness: add_contribution has returned False on a tracker that has a
\* notifier and holds another contributor
C4_Witness ==
  /\ last.op = "add_contribution"
  /\ last.ret = FALSE
  /\ notifier
  /\ last.user \notin DOMAIN contributors
  /\ DOMAIN contributors # {}

\* C5: add_contribution for a username that is in the collection returns True,
\* appends exactly one contribution at the end of that contributor's sequence
\* and leaves every other contributor, that contributor's other fields and the
\* set of usernames unchanged.
C5_KnownUserAppendsOne ==
  [][ (last'.op = "add_contribution" /\ last'.user \in DOMAIN contributors) =>
        LET u == last'.user
            old == contributors[u].contributions
            new == contributors'[u].contributions
        IN /\ last'.ret = TRUE
           /\ DOMAIN contributors' = DOMAIN contributors
           /\ key_order' = key_order
           /\ Len(new) = Len(old) + 1
           /\ SubSeq(new, 1, Len(old)) = old
           /\ contributors' = [contributors EXCEPT ![u].contributions = new] ]_vars

\* C5 witness: add_contribution has returned True for a contributor that held
\* a contribution of an earlier date, with another contributor in the collection
C5_Witness ==
  /\ last.op = "add_contribution"
  /\ last.ret = TRUE
  /\ last.user \in DOMAIN contributors
  /\ Cardinality(DOMAIN contributors) = 2
  /\ LET cl == contributors[last.user].contributions
     IN Len(cl) >= 2 /\ cl[1].date # cl[Len(cl)].date

\* C6: the completion boundary is 4. get_completed_contributors lists exactly
\* the contributors that hold at least 4 contributions, each once.
C6_CompletionBoundary ==
  LET completed == get_completed_contributors(contributors, key_order)
  IN /\ \A u \in DOMAIN contributors :
          u \in Range(completed) <=> Len(contributors[u].contributions) >= 4
     /\ Range(completed) \subseteq DOMAIN contributors
     /\ Cardinality(Range(completed)) = Len(completed)

\* C6 witness: add_contribution has brought a contributor from 3 to 4
\* contributions and the contributor is listed
C6_Witness ==
  /\ last.op = "add_contribution"
  /\ last.ret = TRUE
  /\ last.user \in DOMAIN contributors
  /\ Len(contributors[last.user].contributions) = 4
  /\ last.user \in Range(get_completed_contributors(contributors, key_order))

\* C7: round trip. After a call has written the data file, a tracker
\* constructed over that file at any later time holds the same usernames, for
\* each the same name, github_username, email, joined_date and contributions,
\* and the same project_name and created_date.
C7_RoundTrip ==
  last.write = "ok" =>
    \A t \in {x \in Times : now <= x} :
      LET m == NewTracker(DefaultProjectName, file, t)
      IN /\ m.contributors = contributors
         /\ m.project_name = project_name
         /\ m.created_date = created_date

\* C7 witness: the file has been written by a tracker that holds two
\* contributors, one with a contribution, whose project name is not the
\* default, at a time later than the dates it holds
C7_Witness ==
  /\ last.write = "ok"
  /\ Cardinality(DOMAIN contributors) = 2
  /\ project_name # DefaultProjectName
  /\ \E u \in DOMAIN contributors :
       /\ Len(contributors[u].contributions) > 0
       /\ contributors[u].joined_date < now
  /\ created_date < now

\* C8: the collection is keyed by identity. The contributor stored under a key
\* has that key as its github_username.
C8_KeyedByUsername ==
  \A k \in DOMAIN contributors : contributors[k].github_username = k

\* C9: when load_data raises, the tracker constructed over the file holds no
\* contributors and keeps the project_name and created_date it was given.
C9_FailedLoadLeavesStateEmpty ==
  (last.op = "__init__" /\ LoadRaises(file)) =>
    /\ DOMAIN contributors = {}
    /\ project_name = DefaultProjectName
    /\ created_date = now

\* C10: load_data on a missing data file is a no-op. The collection,
\* project_name and created_date are unchanged and nothing is written or sent.
C10_MissingFileNoOp ==
  [][ (last'.op \in {"__init__", "load_data"} /\ file.kind = "missing") =>
        /\ UNCHANGED << project_name, created_date, contributors, key_order, file >>
        /\ last'.write = "none"
        /\ sent' = << >> ]_vars

\* C10 witness: load_data has run on a tracker that holds contributors while
\* the data file is missing
C10_Witness ==
  /\ last.op = "load_data"
  /\ file.kind = "missing"
  /\ DOMAIN contributors # {}

\* C11: a failing file write is not fatal. When the write of save_data fails
\* inside add_contributor or add_contribution, the call still returns, the
\* collection holds the new contributor, respectively the appended
\* contribution, and the value returned is the one of a successful write: the
\* stored contributor, respectively True.
C11_FailedWriteNonFatal ==
  [][ (/\ last'.op \in {"add_contributor", "add_contribution"}
       /\ last'.write \in {"open_fails", "dump_fails"}) =>
        LET u == last'.user
        IN /\ u \in DOMAIN contributors'
           /\ last'.op = "add_contributor" =>
                /\ u \notin DOMAIN contributors
                /\ last'.ret = contributors'[u]
                /\ DOMAIN contributors' = DOMAIN contributors \cup {u}
           /\ last'.op = "add_contribution" =>
                /\ u \in DOMAIN contributors
                /\ last'.ret = TRUE
                /\ Len(contributors'[u].contributions)
                     = Len(contributors[u].contributions) + 1 ]_vars

\* C11 witness: add_contributor has returned a contributor that the collection
\* holds and the data file does not, the write having failed
C11_Witness ==
  /\ last.op = "add_contributor"
  /\ last.write \in {"open_fails", "dump_fails"}
  /\ last.user \in DOMAIN contributors
  /\ last.ret = contributors[last.user]
  /\ last.user \notin FileKeys(file)

\* C12: for every collection, total_contributions of the project statistics
\* is the sum over the usernames of the collection of their number of
\* contributions, and total_contributors is the number of usernames.
C12_StatsTotals ==
  LET stats == get_project_stats(Current)
  IN /\ stats.total_contributions = TotalContributions(contributors)
     /\ stats.total_contributors = Cardinality(DOMAIN contributors)

\* C12 witness: the collection holds two contributors, both with
\* contributions, one with several that are equal
C12_Witness ==
  /\ Cardinality(DOMAIN contributors) = 2
  /\ \A u \in DOMAIN contributors : Len(contributors[u].contributions) >= 1
  /\ \E u \in DOMAIN contributors :
       /\ Len(contributors[u].contributions) >= 3
       /\ contributors[u].contributions[1] = contributors[u].contributions[2]
  /\ get_project_stats(Current).total_contributions >= 4

\* C13: with an empty collection get_project_stats returns zeroed aggregates:
\* total_contributors 0, total_contributions 0, completed_hacktoberfest 0,
\* completion_rate "0%", avg_contributions_per_contributor 0,
\* unique_repositories 0 and an empty contributions_by_type; get_leaderboard
\* and get_recent_contributions return empty lists.
C13_EmptyCollectionZeroed ==
  DOMAIN contributors = {} =>
    LET stats == get_project_stats(Current)
    IN /\ stats.total_contributors = 0
       /\ stats.total_contributions = 0
       /\ stats.completed_hacktoberfest = 0
       /\ stats.completion_rate = "0%"
       /\ stats.avg_contributions_per_contributor = Zero
       /\ stats.unique_repositories = 0
       /\ DOMAIN stats.contributions_by_type = {}
       /\ get_leaderboard(contributors, key_order) = << >>
       /\ get_recent_contributions(contributors, key_order, DefaultLimit) = << >>

\* C13 witness: a constructed tracker whose collection is empty has answered
\* a call
C13_Witness ==
  /\ pc = "ready"
  /\ DOMAIN contributors = {}
  /\ last.op = "add_contribution"
  /\ get_project_stats(Current).completion_rate = "0%"

\* the one-to-one mappings of 1..n onto itself
Orderings(n) ==
  {f \in [1..n -> 1..n] : \A i, j \in 1..n : i # j => f[i] # f[j]}

\* the ranking of the collection lists every contributor once, with ranks
\* 1..n, in non-increasing engagement score, contributors of equal score in
\* the order of the collection
RankingOrdered(cs, order) ==
  \A scores \in ScoreAssignments :
    LET r == get_contributors_ranking(cs, order, scores)
        n == Len(order)
    IN /\ Len(r) = n
       /\ \A i \in 1..n : r[i].rank = i
       /\ \A i, j \in 1..n : i < j => r[i].engagement_score >= r[j].engagement_score
       /\ \E f \in Orderings(n) :
            /\ \A i \in 1..n :
                 /\ r[i].username = cs[order[f[i]]].github_username
                 /\ r[i].engagement_score = scores[r[i].username]
            /\ \A i, j \in 1..n :
                 (i < j /\ r[i].engagement_score = r[j].engagement_score) => f[i] < f[j]

\* the rows new are the rows old in non-increasing displayed score, rows of
\* equal score in the order they had, with the ranks 1..n in row order
SortedByScore(old, new) ==
  LET n == Len(old)
  IN /\ Len(new) = n
     /\ \A i, j \in 1..n : i < j => ParseFloat(new[i].score) >= ParseFloat(new[j].score)
     /\ \E f \in Orderings(n) :
          /\ \A i \in 1..n : new[i] = [old[f[i]] EXCEPT !.rank = i]
          /\ \A i, j \in 1..n :
               (i < j /\ new[i].score = new[j].score) => f[i] < f[j]

C15_LeaderboardByCount ==
  LET lb == get_leaderboard(contributors, key_order)
      n == Len(key_order)
  IN /\ Len(lb) = n
     /\ \A i, j \in 1..n : i < j => lb[i].contribution_count >= lb[j].contribution_count
     /\ \E f \in Orderings(n) :
          /\ \A i \in 1..n :
               LET contributor == contributors[key_order[f[i]]]
               IN /\ lb[i].github_username = contributor.github_username
                  /\ lb[i].name = contributor.name
                  /\ lb[i].email = contributor.email
                  /\ lb[i].contribution_count = Len(contributor.contributions)
          /\ \A i, j \in 1..n :
               (i < j /\ lb[i].contribution_count = lb[j].contribution_count)
                 => f[i] < f[j]

\* C15 witness: the contributor inserted second holds more contributions than
\* the one inserted first and leads the leaderboard
C15_Witness ==
  /\ Len(key_order) = 2
  /\ Len(contributors[key_order[2]].contributions)
       > Len(contributors[key_order[1]].contributions)
  /\ LET lb == get_leaderboard(contributors, key_order)
     IN /\ lb[1].github_username = contributors[key_order[2]].github_username
        /\ lb[1].contribution_count > lb[2].contribution_count
        /\ lb[1].github_username # lb[2].github_username

\* the lookups by username
LookupOps ==
  {"get_contributor", "get_contributor_metrics", "get_engagement_score",
   "send_notification_to_contributor"}

\* C16: lookups of an unknown username give NotFound as a value:
\* get_contributor returns None, get_contributor_metrics an empty mapping,
\* get_engagement_score 0.0 and send_notification_to_contributor False, and
\* nothing is sent; no lookup changes the collection.
C16_UnknownUserLookups ==
  [][ last'.op \in LookupOps =>
        /\ UNCHANGED << project_name, created_date, contributors, key_order, file >>
        /\ last'.user \notin DOMAIN contributors =>
             /\ sent' = << >>
             /\ last'.op = "get_contributor" => last'.ret = None
             /\ last'.op = "get_contributor_metrics" => DOMAIN last'.ret = {}
             /\ last'.op = "get_engagement_score" => last'.ret = FloatValue(0)
             /\ last'.op = "send_notification_to_contributor" => last'.ret = FALSE ]_vars

\* C16 witness: send_notification_to_contributor has returned False for an
\* unknown username on a tracker that has a notifier and holds a contributor
\* with an email
C16_Witness ==
  /\ last.op = "send_notification_to_contributor"
  /\ last.user \notin DOMAIN contributors
  /\ last.ret = FALSE
  /\ notifier
  /\ \E u \in DOMAIN contributors : contributors[u].email # ""

\* C17: import_from_csv never overwrites an existing contributor. Every
\* username of the collection before the import keeps its stored name, email,
\* joined_date and github_username, and its contributions as a prefix of the
\* ones it has afterwards; the usernames added are behind the old ones.
C17_ImportKeepsExisting ==
  [][ last'.op = "import_from_csv" =>
        /\ IsPrefix(key_order, key_order')
        /\ \A u \in DOMAIN contributors :
             /\ u \in DOMAIN contributors'
             /\ contributors'[u].name = contributors[u].name
             /\ contributors'[u].email = contributors[u].email
             /\ contributors'[u].joined_date = contributors[u].joined_date
             /\ contributors'[u].github_username = contributors[u].github_username
             /\ IsPrefix(contributors[u].contributions,
                         contributors'[u].contributions) ]_vars

\* C17 witness: an import whose contributors file names u2 as Bob has
\* returned True on a collection that held u2 as Ann from an earlier time on
C17_Witness ==
  /\ last.op = "import_from_csv"
  /\ last.ret = TRUE
  /\ "u2" \in DOMAIN contributors
  /\ contributors["u2"].name = "Ann"
  /\ contributors["u2"].email = "ann@x.org"
  /\ contributors["u2"].joined_date < now

C19_PrNumberOptionalInt ==
  \A u \in DOMAIN contributors :
    \A i \in 1..Len(contributors[u].contributions) :
      LET pr_number == contributors[u].contributions[i].pr_number
      IN pr_number = None \/ pr_number.type = "int"

\* C20: email is optional. An "Add Contributor" form of the desktop window
\* that holds a name and a username and no email creates the contributor: after
\* the button the username is in the collection, and a contributor created by
\* it has the email "".
C20_EmailOptional ==
  [][ (/\ event' = "add_contributor"
       /\ Strip(name_var) # ""
       /\ Strip(username_var) # ""
       /\ Strip(email_var) = "") =>
        LET username == Strip(username_var)
        IN /\ username \in DOMAIN contributors'
           /\ username \notin DOMAIN contributors =>
                /\ contributors'[username].email = ""
                /\ contributors'[username].name = Strip(name_var) ]_vars

\* the calls that only read, and what a caller does with the values returned
ReadOnlyOps ==
  {"get_contributor", "get_all_contributors", "get_completed_contributors",
   "get_leaderboard", "get_project_stats", "get_recent_contributions",
   "returned.pop()", "returned[0]['description'] = 'edited'"}

\* C21: read-only operations are pure. get_contributor, get_all_contributors,
\* get_completed_contributors, get_leaderboard, get_project_stats and
\* get_recent_contributions leave the collection (usernames, fields and every
\* stored contribution record with its set of keys) and the data file as they
\* are; so does a caller that changes the list get_all_contributors returned
\* or a record get_recent_contributions returned.
C21_ReadOnlyOperationsPure ==
  [][ last'.op \in ReadOnlyOps =>
        UNCHANGED << project_name, created_date, contributors, key_order, file >> ]_vars

\* C21 witness: the caller has changed the description of a record that
\* get_recent_contributions returned; the record carries its contributor and
\* the stored contribution has neither the new description nor the key
C21_Witness ==
  /\ last.op = "returned[0]['description'] = 'edited'"
  /\ last.ret[1].description = "edited"
  /\ "contributor" \in DOMAIN last.ret[1]
  /\ Cardinality(DOMAIN contributors) = 2
  /\ \A u \in DOMAIN contributors :
       \A i \in 1..Len(contributors[u].contributions) :
         /\ contributors[u].contributions[i].description = "desc"
         /\ "contributor" \notin DOMAIN contributors[u].contributions[i]
  /\ \E u \in DOMAIN contributors :
       /\ contributors[u] = last.ret[1].contributor
       /\ Len(contributors[u].contributions) >= 4

\* the contributors recorded in the data file f are the ones of the collection
\* cs: the same usernames, for each the same fields and contributions
FileInSync(f, cs) ==
  /\ f.kind = "json"
  /\ "contributors" \in DOMAIN f.data
  /\ LET items == f.data["contributors"]
     IN /\ {items[i][1] : i \in 1..Len(items)} = DOMAIN cs
        /\ Len(items) = Cardinality(DOMAIN cs)
        /\ \A i \in 1..Len(items) :
             LET d == items[i][2]
                 contributor == cs[items[i][1]]
             IN /\ DOMAIN d = {"name", "github_username", "email", "joined_date",
                               "contributions"}
                /\ d["name"] = contributor.name
                /\ d["github_username"] = contributor.github_username
                /\ d["email"] = contributor.email
                /\ d["joined_date"] = isoformat(contributor.joined_date)
                /\ d["contributions"] = contributor.contributions

\* C22: persistence stays in sync. As long as no file write has failed, after
\* an add_contributor that has created a contributor, an add_contribution
\* that has returned True and an import_from_csv that has returned True the
\* contributors recorded in the data file are the ones of the collection.
C22_PersistenceInSync ==
  (/\ failures = 0
   /\ \/ last.op = "add_contributor" /\ last.write # "none"
      \/ last.op = "add_contribution" /\ last.ret = TRUE
      \/ last.op = "import_from_csv" /\ last.ret = TRUE) =>
    FileInSync(file, contributors)

\* C22 witness: with no failed write, an import has added a contributor and a
\* contribution to a collection that was loaded from a file, and the file
\* holds both contributors
C22_Witness ==
  /\ failures = 0
  /\ last.op = "import_from_csv"
  /\ last.ret = TRUE
  /\ Cardinality(DOMAIN contributors) = 2
  /\ \A u \in DOMAIN contributors : Len(contributors[u].contributions) > 0
  /\ FileKeys(file) = DOMAIN contributors
  /\ FileInSync(file, contributors)

\* C23: add_contributor for a username that is already in the collection has
\* no effect: the stored name, email, joined_date and contributions stay as
\* they are whatever name and email the call is given, no file write is
\* attempted and no welcome email is sent.
C23_ExistingUsernameNoEffect ==
  [][ (last'.op = "add_contributor" /\ last'.user \in DOMAIN contributors) =>
        /\ contributors'[last'.user].name = contributors[last'.user].name
        /\ contributors'[last'.user].email = contributors[last'.user].email
        /\ contributors'[last'.user].joined_date = contributors[last'.user].joined_date
        /\ contributors'[last'.user].contributions
             = contributors[last'.user].contributions
        /\ last'.write = "none"
        /\ file' = file
        /\ failures' = failures
        /\ sent' = << >> ]_vars

\* C23 witness: on a tracker that has a notifier, add_contributor has returned
\* a contributor that has an email, joined earlier and holds contributions
C23_Witness ==
  /\ last.op = "add_contributor"
  /\ last.write = "none"
  /\ notifier
  /\ sent = << >>
  /\ last.ret = contributors[last.user]
  /\ last.ret.email # ""
  /\ last.ret.joined_date < now
  /\ Len(last.ret.contributions) = 4

\* C24: an import_from_csv that returns False leaves the collection and the
\* data file as they are, both when the contributors file yields no
\* contributors and when an exception is raised during the import.
C24_FailedImportNoEffect ==
  [][ (last'.op = "import_from_csv" /\ last'.ret = FALSE) =>
        UNCHANGED << project_name, created_date, contributors, key_order, file >> ]_vars

\* C25: an add_contribution that returns True while a notifier is enabled
\* and the contributor has an email sends exactly one milestone notification,
\* with the number of contributions after the append and a completion flag
\* that is true iff that number is at least 4; without a notifier or without
\* an email of the contributor add_contribution sends nothing.
C25_MilestonePerContribution ==
  last.op = "add_contribution" =>
    IF /\ last.ret = TRUE
       /\ notifier
       /\ contributors[last.user].email # ""
    THEN LET count == Len(contributors[last.user].contributions)
         IN sent = << [kind |-> "milestone",
                       to |-> contributors[last.user].email,
                       username |-> last.user,
                       count |-> count,
                       complete |-> (count >= 4)] >>
    ELSE sent = << >>

\* C25 witness: on a tracker that has a notifier the fourth contribution of a
\* contributor with an email has sent its notification
C25_Witness ==
  /\ last.op = "add_contribution"
  /\ last.ret = TRUE
  /\ notifier
  /\ Len(sent) = 1
  /\ sent[1].kind = "milestone"
  /\ sent[1].count = 4
  /\ sent[1].complete
  /\ sent[1].to = "ann@x.org"

\* the welcome emails among the notifications ns
Welcomes(ns) == SelectSeq(ns, LAMBDA n : n.kind = "welcome")

\* C26: a welcome email is sent at most once per username over any sequence
\* of calls. A call sends one exactly when it is an add_contributor that
\* creates a contributor while a notifier is enabled and the email it is given
\* is not empty; a call that returns an existing contributor sends none.
C26_WelcomeAtMostOnce ==
  [][ /\ \A u \in Users : Cardinality({i \in 1..Len(welcomed') : welcomed'[i] = u}) <= 1
      /\ IF /\ last'.op = "add_contributor"
            /\ last'.user \notin DOMAIN contributors
            /\ notifier
            /\ contributors'[last'.user].email # ""
         THEN /\ sent' = << [kind |-> "welcome",
                             to |-> contributors'[last'.user].email,
                             username |-> last'.user,
                             count |-> 0, complete |-> FALSE] >>
              /\ welcomed' = Append(welcomed, last'.user)
         ELSE /\ Welcomes(sent') = << >>
              /\ welcomed' = welcomed ]_vars

\* C26 witness: add_contributor has returned, without a welcome email, a
\* contributor that was welcomed when it was created
C26_Witness ==
  /\ last.op = "add_contributor"
  /\ last.write = "none"
  /\ notifier
  /\ last.ret.email # ""
  /\ sent = << >>
  /\ Cardinality({i \in 1..Len(welcomed) : welcomed[i] = last.user}) = 1

\* the record rec is the j-th contribution of the contributor stored under u,
\* with that contributor under the key 'contributor'
Owns(u, j, rec) ==
  LET stored == contributors[u].contributions[j]
  IN /\ DOMAIN rec = DOMAIN stored \cup {"contributor"}
     /\ rec["contributor"] = contributors[u]
     /\ \A k \in DOMAIN stored : rec[k] = stored[k]

\* the places of the stored contributions: key and index
Places ==
  UNION { {<< u, j >> : j \in 1..Len(contributors[u].contributions)} :
          u \in DOMAIN contributors }

\* C27: get_recent_contributions(limit) with limit >= 0 returns min(limit,
\* total number of contributions) records, the most recent date first; each
\* returned record is a stored contribution together with the contributor
\* that owns it, no stored contribution is returned more often than it is
\* stored, and the date of every returned record is at least the date of
\* every contribution that is not returned.
C27_RecentContributions ==
  last.op = "get_recent_contributions" =>
    LET limit == last.user
        r == last.ret
        total == TotalContributions(contributors)
        returned(p) == Cardinality({i \in 1..Len(r) : r[i] = r[p]})
        copies(rec) == Cardinality({q \in Places : Owns(q[1], q[2], rec)})
        times(p) == Cardinality({i \in 1..Len(r) : Owns(p[1], p[2], r[i])})
        twins(p) == Cardinality({q \in Places :
                       /\ contributors[q[1]] = contributors[p[1]]
                       /\ contributors[q[1]].contributions[q[2]]
                            = contributors[p[1]].contributions[p[2]]})
    IN /\ Len(r) = IF limit < total THEN limit ELSE total
       /\ \A i, j \in 1..Len(r) : i < j => StrRank(r[i].date) >= StrRank(r[j].date)
       /\ \A i \in 1..Len(r) : 1 <= copies(r[i]) /\ returned(i) <= copies(r[i])
       /\ \A p \in Places :
            times(p) < twins(p) =>
              \A i \in 1..Len(r) :
                StrRank(r[i].date)
                  >= StrRank(contributors[p[1]].contributions[p[2]].date)

\* C27 witness: get_recent_contributions(2) has returned two of more than two
\* contributions; the first is newer than one that is left out and belongs
\* to the contributor that was inserted second
C27_Witness ==
  /\ last.op = "get_recent_contributions"
  /\ last.user = 2
  /\ Len(last.ret) = 2
  /\ TotalContributions(contributors) > 2
  /\ Len(key_order) = 2
  /\ last.ret[1].contributor = contributors[key_order[2]]
  /\ last.ret[2].contributor = contributors[key_order[1]]
  /\ \E j \in 1..Len(contributors[key_order[1]].contributions) :
       StrRank(contributors[key_order[1]].contributions[j].date)
         < StrRank(last.ret[1].date)

\* the rows of a table are one per contributor of the collection, each with
\* the contributor's number of contributions
RowsMatchCollection(tree) ==
  /\ Len(tree) = Cardinality(DOMAIN contributors)
  /\ {tree[i].username : i \in 1..Len(tree)} = DOMAIN contributors
  /\ \A i \in 1..Len(tree) :
       tree[i].contributions = Len(contributors[tree[i].username].contributions)

\* C28: the desktop views stay consistent with the tracker. After an "Add
\* Contributor" or "Add Contribution" action of the desktop window that
\* succeeded, the contributors table and the leaderboard table each hold
\* exactly one row per contributor of the tracker with that contributor's
\* current number of contributions, and the counters of the dashboard are the
\* tracker's current numbers of contributors and of contributions.
C28_DesktopViewsConsistent ==
  (\/ event = "add_contributor" /\ last.op = "add_contributor"
   \/ event = "add_contribution" /\ last.op = "add_contribution" /\ last.ret = TRUE) =>
    /\ RowsMatchCollection(contributors_tree)
    /\ RowsMatchCollection(leaderboard_tree)
    /\ stats_vars.contributors = ToString(Cardinality(DOMAIN contributors))
    /\ stats_vars.contributions = ToString(TotalContributions(contributors))

\* the usernames of the contributors whose username, name or email contains
\* the text, whatever the case of the letters
Matching(text) ==
  {u \in DOMAIN contributors :
     \/ Contains(Lower(text), Lower(contributors[u].github_username))
     \/ Contains(Lower(text), Lower(contributors[u].name))
     \/ Contains(Lower(text), Lower(contributors[u].email))}

\* C29: after any sequence of edits of the search box the rows visible in the
\* contributors table are exactly the loaded contributors whose username, name
\* or email contains the current search text, case-insensitively; clearing
\* the text after narrowing it makes every contributor's row visible again.
C29_SearchShowsMatches ==
  event = "filter_contributors" =>
    /\ {contributors_tree[i].username : i \in 1..Len(contributors_tree)}
         = Matching(search_var)
    /\ Len(contributors_tree) = Cardinality(Matching(search_var))

=============================================================================
